---- MODULE Spec2Model ----
(***************************************************************************)
(* Model of src/src/tls12.rs: the TLS 1.2 handshake message-sequence       *)
(* state machine (State, State::sends, step) and the loop with which the   *)
(* test module drives it (test::print / test::linearise).                  *)
(***************************************************************************)
EXTENDS Integers, Sequences, FiniteSets, TLC

VARIABLES
    opts,       \* the ProtocolOptions value of the run (never mutated)
    state,      \* `state` of the driving loop / the `st` argument of step
    next,       \* `next`: the value the last call of step returned
    send,       \* `send`: the value the last call of sends returned
    v,          \* linearise's Vec of (state, peer, message) triples
    pc,         \* position of the caller
    other,      \* a second State argument, for comparing two calls of sends
    sendOther,  \* the value sends returned for `other`
    run,        \* the states seen while step is applied repeatedly
    seen,       \* the values step has returned for `state` under varied options
    deps        \* the flags whose value has changed what step returns for `state`

vars == <<opts, state, next, send, v, pc, other, sendOther, run, seen, deps>>

\* Upper limit on the number of applications of step in the iteration
\* specification (Term -> Term would otherwise go on for ever).
MaxApply == 16

-----------------------------------------------------------------------------
(* Data types                                                              *)

\* struct ProtocolOptions: six independent booleans.
ProtocolOptions ==
    [resuming : BOOLEAN, request_client_auth : BOOLEAN,
     perform_client_auth : BOOLEAN, dh_anon : BOOLEAN,
     rsa_kem : BOOLEAN, server_issues_ticket : BOOLEAN]

\* impl Default for ProtocolOptions: every flag false.
DefaultOptions ==
    [resuming |-> FALSE, request_client_auth |-> FALSE,
     perform_client_auth |-> FALSE, dh_anon |-> FALSE,
     rsa_kem |-> FALSE, server_issues_ticket |-> FALSE]

\* enum MessageType
MessageType ==
    {"ClientHello", "ServerHello", "Certificate", "ServerKeyExchange",
     "CertificateRequest", "ServerHelloDone", "ClientKeyExchange",
     "CertificateVerify", "NewSessionTicket", "ChangeCipherSpec", "Finished"}

\* enum Peer
Peer == {"Server", "Client"}

\* enum State
ClientSendsClientHello        == "ClientSendsClientHello"
ServerSendsServerHello        == "ServerSendsServerHello"
ServerSendsCertificate        == "ServerSendsCertificate"
ServerSendsServerKeyExchange  == "ServerSendsServerKeyExchange"
ServerSendsCertificateRequest == "ServerSendsCertificateRequest"
ServerSendsServerHelloDone    == "ServerSendsServerHelloDone"
ClientSendsCertificate        == "ClientSendsCertificate"
ClientSendsClientKeyExchange  == "ClientSendsClientKeyExchange"
ClientSendsCertificateVerify  == "ClientSendsCertificateVerify"
ClientSendsChangeCipherSpec   == "ClientSendsChangeCipherSpec"
ClientSendsFinished           == "ClientSendsFinished"
ServerSendsNewSessionTicket   == "ServerSendsNewSessionTicket"
ServerSendsChangeCipherSpec   == "ServerSendsChangeCipherSpec"
ServerSendsFinished           == "ServerSendsFinished"
Term                          == "Term"

State ==
    {ClientSendsClientHello, ServerSendsServerHello, ServerSendsCertificate,
     ServerSendsServerKeyExchange, ServerSendsCertificateRequest,
     ServerSendsServerHelloDone, ClientSendsCertificate,
     ClientSendsClientKeyExchange, ClientSendsCertificateVerify,
     ClientSendsChangeCipherSpec, ClientSendsFinished,
     ServerSendsNewSessionTicket, ServerSendsChangeCipherSpec,
     ServerSendsFinished, Term}

\* impl Default for State
DefaultState == ClientSendsClientHello

\* The outcome of panic!(): the call does not return a (Peer, MessageType).
Panic == <<"panic">>

\* A local that has not been bound yet (`next`, `send` before the first call).
NoState == "NoState"
NoSend  == <<>>

-----------------------------------------------------------------------------
(* State::sends                                                            *)

\* sends with ClientSendsCertificate attributed to the server.
sends_collide(self) ==
    CASE self = ClientSendsClientHello        -> <<"Client", "ClientHello">>
      [] self = ServerSendsServerHello        -> <<"Server", "ServerHello">>
      [] self = ServerSendsCertificate        -> <<"Server", "Certificate">>
      [] self = ServerSendsServerKeyExchange  -> <<"Server", "ServerKeyExchange">>
      [] self = ServerSendsCertificateRequest -> <<"Server", "CertificateRequest">>
      [] self = ServerSendsServerHelloDone    -> <<"Server", "ServerHelloDone">>
      [] self = ClientSendsCertificate        -> <<"Server", "Certificate">>
      [] self = ClientSendsClientKeyExchange  -> <<"Client", "ClientKeyExchange">>
      [] self = ClientSendsCertificateVerify  -> <<"Client", "CertificateVerify">>
      [] self = ClientSendsChangeCipherSpec   -> <<"Client", "ChangeCipherSpec">>
      [] self = ClientSendsFinished           -> <<"Client", "Finished">>
      [] self = ServerSendsNewSessionTicket   -> <<"Server", "NewSessionTicket">>
      [] self = ServerSendsChangeCipherSpec   -> <<"Server", "ChangeCipherSpec">>
      [] self = ServerSendsFinished           -> <<"Server", "Finished">>
      [] self = Term                          -> Panic

\* sends that answers for Term with a value instead of panicking.
sends_sentinel(self) ==
    CASE self = ClientSendsClientHello        -> <<"Client", "ClientHello">>
      [] self = ServerSendsServerHello        -> <<"Server", "ServerHello">>
      [] self = ServerSendsCertificate        -> <<"Server", "Certificate">>
      [] self = ServerSendsServerKeyExchange  -> <<"Server", "ServerKeyExchange">>
      [] self = ServerSendsCertificateRequest -> <<"Server", "CertificateRequest">>
      [] self = ServerSendsServerHelloDone    -> <<"Server", "ServerHelloDone">>
      [] self = ClientSendsCertificate        -> <<"Client", "Certificate">>
      [] self = ClientSendsClientKeyExchange  -> <<"Client", "ClientKeyExchange">>
      [] self = ClientSendsCertificateVerify  -> <<"Client", "CertificateVerify">>
      [] self = ClientSendsChangeCipherSpec   -> <<"Client", "ChangeCipherSpec">>
      [] self = ClientSendsFinished           -> <<"Client", "Finished">>
      [] self = ServerSendsNewSessionTicket   -> <<"Server", "NewSessionTicket">>
      [] self = ServerSendsChangeCipherSpec   -> <<"Server", "ChangeCipherSpec">>
      [] self = ServerSendsFinished           -> <<"Server", "Finished">>
      [] self = Term                          -> <<"Server", "Finished">>

\* pub fn sends(self) -> (Peer, MessageType)
sends(self) ==
    CASE self = ClientSendsClientHello        -> <<"Client", "ClientHello">>
      [] self = ServerSendsServerHello        -> <<"Server", "ServerHello">>
      [] self = ServerSendsCertificate        -> <<"Server", "Certificate">>
      [] self = ServerSendsServerKeyExchange  -> <<"Server", "ServerKeyExchange">>
      [] self = ServerSendsCertificateRequest -> <<"Server", "CertificateRequest">>
      [] self = ServerSendsServerHelloDone    -> <<"Server", "ServerHelloDone">>
      [] self = ClientSendsCertificate        -> <<"Client", "Certificate">>
      [] self = ClientSendsClientKeyExchange  -> <<"Client", "ClientKeyExchange">>
      [] self = ClientSendsCertificateVerify  -> <<"Client", "CertificateVerify">>
      [] self = ClientSendsChangeCipherSpec   -> <<"Client", "ChangeCipherSpec">>
      [] self = ClientSendsFinished           -> <<"Client", "Finished">>
      [] self = ServerSendsNewSessionTicket   -> <<"Server", "NewSessionTicket">>
      [] self = ServerSendsChangeCipherSpec   -> <<"Server", "ChangeCipherSpec">>
      [] self = ServerSendsFinished           -> <<"Server", "Finished">>
      [] self = Term                          -> Panic

-----------------------------------------------------------------------------
(* step: one operator per arm of the match, then the match itself          *)

stepClientSendsClientHello(o) == ServerSendsServerHello

\* The abbreviated handshake with the server's ChangeCipherSpec put before
\* its Finished.
stepServerSendsServerHello_ccs(o) ==
    IF o.resuming
    THEN IF o.server_issues_ticket
         THEN ServerSendsNewSessionTicket
         ELSE ServerSendsChangeCipherSpec
    ELSE IF o.dh_anon
         THEN ServerSendsServerKeyExchange
         ELSE ServerSendsCertificate

\* The dh_anon test inverted.
stepServerSendsServerHello_anon(o) ==
    IF o.resuming
    THEN IF o.server_issues_ticket
         THEN ServerSendsNewSessionTicket
         ELSE ServerSendsFinished
    ELSE IF o.dh_anon
         THEN ServerSendsCertificate
         ELSE ServerSendsServerKeyExchange

\* dh_anon honoured only when the cipher suite is not RSA key encapsulation.
stepServerSendsServerHello_rsa(o) ==
    IF o.resuming
    THEN IF o.server_issues_ticket
         THEN ServerSendsNewSessionTicket
         ELSE ServerSendsFinished
    ELSE IF o.dh_anon /\ ~o.rsa_kem
         THEN ServerSendsServerKeyExchange
         ELSE ServerSendsCertificate

\* dh_anon tested before resuming.
stepServerSendsServerHello_anonFirst(o) ==
    IF o.dh_anon
    THEN ServerSendsServerKeyExchange
    ELSE IF o.resuming
         THEN IF o.server_issues_ticket
              THEN ServerSendsNewSessionTicket
              ELSE ServerSendsFinished
         ELSE ServerSendsCertificate

stepServerSendsServerHello(o) ==
    IF o.resuming
    THEN IF o.server_issues_ticket
         THEN ServerSendsNewSessionTicket
         ELSE ServerSendsFinished
    ELSE IF o.dh_anon
         THEN ServerSendsServerKeyExchange
         ELSE ServerSendsCertificate

\* The rsa_kem test left out: ServerKeyExchange always follows.
stepServerSendsCertificate_ske(o) == ServerSendsServerKeyExchange

stepServerSendsCertificate(o) ==
    IF o.rsa_kem
    THEN IF o.request_client_auth
         THEN ServerSendsCertificateRequest
         ELSE ServerSendsServerHelloDone
    ELSE ServerSendsServerKeyExchange

\* An anonymous server never asks for a client certificate.
stepServerSendsServerKeyExchange_anon(o) ==
    IF o.request_client_auth /\ ~o.dh_anon
    THEN ServerSendsCertificateRequest
    ELSE ServerSendsServerHelloDone

\* The CertificateRequest left out.
stepServerSendsServerKeyExchange_noreq(o) == ServerSendsServerHelloDone

stepServerSendsServerKeyExchange(o) ==
    IF o.request_client_auth
    THEN ServerSendsCertificateRequest
    ELSE ServerSendsServerHelloDone

stepServerSendsCertificateRequest(o) == ServerSendsServerHelloDone

\* The client decides by its own flag whether to send a certificate.
stepServerSendsServerHelloDone_perform(o) ==
    IF o.perform_client_auth
    THEN ClientSendsCertificate
    ELSE ClientSendsClientKeyExchange

stepServerSendsServerHelloDone(o) ==
    IF o.request_client_auth
    THEN ClientSendsCertificate
    ELSE ClientSendsClientKeyExchange

stepClientSendsCertificate(o) == ClientSendsClientKeyExchange

\* CertificateVerify only when the server asked for a certificate.
stepClientSendsClientKeyExchange_requested(o) ==
    IF o.perform_client_auth /\ o.request_client_auth
    THEN ClientSendsCertificateVerify
    ELSE ClientSendsChangeCipherSpec

stepClientSendsClientKeyExchange(o) ==
    IF o.perform_client_auth
    THEN ClientSendsCertificateVerify
    ELSE ClientSendsChangeCipherSpec

stepClientSendsCertificateVerify(o) == ClientSendsChangeCipherSpec

stepClientSendsChangeCipherSpec(o) == ClientSendsFinished

\* The resuming test left out: the server always answers the client's Finished.
stepClientSendsFinished_noTerm(o) ==
    IF o.server_issues_ticket
    THEN ServerSendsNewSessionTicket
    ELSE ServerSendsChangeCipherSpec

\* server_issues_ticket tested before resuming.
stepClientSendsFinished_ticketFirst(o) ==
    IF o.server_issues_ticket
    THEN ServerSendsNewSessionTicket
    ELSE IF o.resuming
         THEN Term
         ELSE ServerSendsChangeCipherSpec

stepClientSendsFinished(o) ==
    IF o.resuming
    THEN Term
    ELSE IF o.server_issues_ticket
         THEN ServerSendsNewSessionTicket
         ELSE ServerSendsChangeCipherSpec

\* The server's ChangeCipherSpec left out after the ticket.
stepServerSendsNewSessionTicket_noccs(o) == ServerSendsFinished

stepServerSendsNewSessionTicket(o) == ServerSendsChangeCipherSpec

stepServerSendsChangeCipherSpec(o) == ServerSendsFinished

\* The resuming test dropped: the client always answers the server's Finished.
stepServerSendsFinished_always(o) == ClientSendsChangeCipherSpec

\* The resuming test inverted.
stepServerSendsFinished_inverted(o) ==
    IF o.resuming
    THEN Term
    ELSE ClientSendsChangeCipherSpec

stepServerSendsFinished(o) ==
    IF o.resuming
    THEN ClientSendsChangeCipherSpec
    ELSE Term

\* Term starts a new handshake.
stepTerm_restart(o) == ClientSendsClientHello

stepTerm(o) == Term

\* pub fn step(st: State, opts: ProtocolOptions) -> State
step(st, o) ==
    CASE st = ClientSendsClientHello        -> stepClientSendsClientHello(o)
      [] st = ServerSendsServerHello        -> stepServerSendsServerHello(o)
      [] st = ServerSendsCertificate        -> stepServerSendsCertificate(o)
      [] st = ServerSendsServerKeyExchange  -> stepServerSendsServerKeyExchange(o)
      [] st = ServerSendsCertificateRequest -> stepServerSendsCertificateRequest(o)
      [] st = ServerSendsServerHelloDone    -> stepServerSendsServerHelloDone(o)
      [] st = ClientSendsCertificate        -> stepClientSendsCertificate(o)
      [] st = ClientSendsClientKeyExchange  -> stepClientSendsClientKeyExchange(o)
      [] st = ClientSendsCertificateVerify  -> stepClientSendsCertificateVerify(o)
      [] st = ClientSendsChangeCipherSpec   -> stepClientSendsChangeCipherSpec(o)
      [] st = ClientSendsFinished           -> stepClientSendsFinished(o)
      [] st = ServerSendsNewSessionTicket   -> stepServerSendsNewSessionTicket(o)
      [] st = ServerSendsChangeCipherSpec   -> stepServerSendsChangeCipherSpec(o)
      [] st = ServerSendsFinished           -> stepServerSendsFinished(o)
      [] st = Term                          -> stepTerm(o)

-----------------------------------------------------------------------------
(* Spec: the loop of test::print / test::linearise                         *)
(*                                                                         *)
(*   let mut state = State::default();  let mut v = Vec::new();            *)
(*   loop { let send = state.sends();   v.push((state, send.0, send.1));   *)
(*          let next = step(state, opts);                                  *)
(*          if next == State::Term { break; }                              *)
(*          state = next; }                                                *)
(* print emits with println! what linearise pushes to v.                   *)

Init ==
    /\ opts \in ProtocolOptions
    /\ state = DefaultState
    /\ next = NoState
    /\ send = NoSend
    /\ v = <<>>
    /\ pc = "sends"
    /\ other = NoState
    /\ sendOther = NoSend
    /\ run = <<>>
    /\ seen = {}
    /\ deps = {}

\* let send = state.sends(); v.push((state, send.0, send.1));
\* A panic unwinds out of the loop: nothing is pushed.
lineariseSends ==
    /\ pc = "sends"
    /\ send' = sends(state)
    /\ IF send' = Panic
       THEN /\ pc' = "panicked"
            /\ v' = v
       ELSE /\ pc' = "step"
            /\ v' = Append(v, <<state, send'[1], send'[2]>>)
    /\ UNCHANGED <<opts, state, next, other, sendOther, run, seen, deps>>

\* let next = step(state, opts);
lineariseStep ==
    /\ pc = "step"
    /\ next' = step(state, opts)
    /\ pc' = "check"
    /\ UNCHANGED <<opts, state, send, v, other, sendOther, run, seen, deps>>

\* The loop never breaks: every `next` becomes the new `state`.
lineariseCheck_nobreak ==
    /\ pc = "check"
    /\ state' = next
    /\ pc' = "sends"
    /\ UNCHANGED <<opts, next, send, v, other, sendOther, run, seen, deps>>

\* if next == State::Term { break; }  state = next;
lineariseCheck ==
    /\ pc = "check"
    /\ IF next = Term
       THEN /\ pc' = "done"
            /\ state' = state
       ELSE /\ pc' = "sends"
            /\ state' = next
    /\ UNCHANGED <<opts, next, send, v, other, sendOther, run, seen, deps>>

Next == lineariseSends \/ lineariseStep \/ lineariseCheck

Spec == Init /\ [][Next]_vars

\* The loop is straight-line sequential code with no blocking call: whenever
\* an iteration step is possible it is eventually taken.
LiveSpec == Init /\ [][Next]_vars /\ WF_vars(Next)

\* Upper limit on the length of a run computed by lineariseFrom.
MaxRun == 15

\* The states test::linearise pushes to v when its loop is entered with
\* `state` = st: the loop as a function of the options.
RECURSIVE lineariseFrom(_, _, _)
lineariseFrom(st, o, fuel) ==
    IF fuel = 0 \/ sends(st) = Panic
    THEN <<>>
    ELSE IF step(st, o) = Term
         THEN <<st>>
         ELSE <<st>> \o lineariseFrom(step(st, o), o, fuel - 1)

\* linearise(o)
linearise(o) == lineariseFrom(DefaultState, o, MaxRun)

-----------------------------------------------------------------------------
(* IterSpec: step applied repeatedly from State::default() under fixed     *)
(* options, also after Term has been reached                               *)

IterInit ==
    /\ opts \in ProtocolOptions
    /\ state = DefaultState
    /\ run = <<DefaultState>>
    /\ seen = {}
    /\ deps = {}
    /\ next = NoState
    /\ send = NoSend
    /\ v = <<>>
    /\ pc = "iterate"
    /\ other = NoState
    /\ sendOther = NoSend

\* Number of applications of step so far.
Applications == Len(run) - 1

\* state = step(state, opts)
Apply ==
    /\ pc = "iterate"
    /\ Applications < MaxApply
    /\ state' = step(state, opts)
    /\ run' = Append(run, state')
    /\ UNCHANGED <<opts, next, send, v, pc, other, sendOther, seen, deps>>

IterNext == Apply

IterSpec == IterInit /\ [][IterNext]_vars

-----------------------------------------------------------------------------
(* FnSpec: sends and step as functions, called once on arbitrary arguments *)

FnInit ==
    /\ opts \in ProtocolOptions
    /\ state \in State
    /\ other \in State
    /\ next = NoState
    /\ send = NoSend
    /\ sendOther = NoSend
    /\ v = <<>>
    /\ pc = "call"
    /\ run = <<>>
    /\ seen = {}
    /\ deps = {}

\* state.sends() and other.sends()
CallSends ==
    /\ pc = "call"
    /\ send' = sends(state)
    /\ sendOther' = sends(other)
    /\ pc' = "sent"
    /\ UNCHANGED <<opts, state, other, next, v, run, seen, deps>>

\* step(state, opts)
CallStep ==
    /\ pc = "call"
    /\ next' = step(state, opts)
    /\ pc' = "stepped"
    /\ UNCHANGED <<opts, state, other, send, sendOther, v, run, seen, deps>>

FnNext == CallSends \/ CallStep

FnSpec == FnInit /\ [][FnNext]_vars

-----------------------------------------------------------------------------
(* IterAnySpec: step applied repeatedly from an arbitrary State, also one  *)
(* that the run from State::default() does not visit under the options     *)

IterAnyInit ==
    /\ opts \in ProtocolOptions
    /\ state \in State
    /\ run = <<state>>
    /\ seen = {}
    /\ deps = {}
    /\ next = NoState
    /\ send = NoSend
    /\ v = <<>>
    /\ pc = "iterate"
    /\ other = NoState
    /\ sendOther = NoSend

IterAnySpec == IterAnyInit /\ [][IterNext]_vars

-----------------------------------------------------------------------------
(* BranchSpec: step called on one State again and again, each time with    *)
(* one flag of the options flipped, to see how the arm of that State       *)
(* branches                                                                *)

\* The fields of struct ProtocolOptions.
Flags ==
    {"resuming", "request_client_auth", "perform_client_auth", "dh_anon",
     "rsa_kem", "server_issues_ticket"}

\* ProtocolOptions { f: !o.f, ..o }
Flip(o, f) == [o EXCEPT ![f] = ~o[f]]

BranchInit ==
    /\ opts \in ProtocolOptions
    /\ state \in State
    /\ seen = {}
    /\ deps = {}
    /\ next = NoState
    /\ send = NoSend
    /\ v = <<>>
    /\ pc = "probe"
    /\ other = NoState
    /\ sendOther = NoSend
    /\ run = <<>>

\* step(state, opts) and then step(state, ProtocolOptions { f: !opts.f, ..opts })
Probe(f) ==
    /\ pc = "probe"
    /\ opts' = Flip(opts, f)
    /\ next' = step(state, opts')
    /\ seen' = seen \cup {step(state, opts), next'}
    /\ deps' = IF next' # step(state, opts) THEN deps \cup {f} ELSE deps
    /\ UNCHANGED <<state, send, v, pc, other, sendOther, run>>

BranchNext == \E f \in Flags : Probe(f)

BranchSpec == BranchInit /\ [][BranchNext]_vars

-----------------------------------------------------------------------------
(* Properties                                                              *)

StatesOf(seq)   == [i \in 1..Len(seq) |-> seq[i][1]]
MessagesOf(seq) == [i \in 1..Len(seq) |-> <<seq[i][2], seq[i][3]>>]
IsPrefix(a, b)  == Len(a) <= Len(b) /\ \A i \in 1..Len(a) : a[i] = b[i]
NoRepeat(seq)   == \A i, j \in 1..Len(seq) : seq[i] = seq[j] => i = j

\* C1: from State::default(), under any of the 64 option values, Term is
\* reached after at most 14 applications of step.
C1_TermWithin14 == Applications >= 14 => state = Term

\* The longest handshake needs all 14 applications.
C1_Witness == Applications = 14 /\ state = Term /\ run[14] # Term

\* The branching rules 1-15 of the transition operation, as the
\* specification words them.
CertificateRequestOrDone(o) ==
    IF o.request_client_auth THEN ServerSendsCertificateRequest
                             ELSE ServerSendsServerHelloDone

TransitionRule(st, o) ==
    CASE st = ClientSendsClientHello -> ServerSendsServerHello
      [] st = ServerSendsServerHello ->
            IF o.resuming
            THEN (IF o.server_issues_ticket THEN ServerSendsNewSessionTicket
                                            ELSE ServerSendsFinished)
            ELSE (IF o.dh_anon THEN ServerSendsServerKeyExchange
                               ELSE ServerSendsCertificate)
      [] st = ServerSendsCertificate ->
            IF o.rsa_kem THEN CertificateRequestOrDone(o)
                         ELSE ServerSendsServerKeyExchange
      [] st = ServerSendsServerKeyExchange -> CertificateRequestOrDone(o)
      [] st = ServerSendsCertificateRequest -> ServerSendsServerHelloDone
      [] st = ServerSendsServerHelloDone ->
            IF o.request_client_auth THEN ClientSendsCertificate
                                     ELSE ClientSendsClientKeyExchange
      [] st = ClientSendsCertificate -> ClientSendsClientKeyExchange
      [] st = ClientSendsClientKeyExchange ->
            IF o.perform_client_auth THEN ClientSendsCertificateVerify
                                     ELSE ClientSendsChangeCipherSpec
      [] st = ClientSendsCertificateVerify -> ClientSendsChangeCipherSpec
      [] st = ClientSendsChangeCipherSpec -> ClientSendsFinished
      [] st = ClientSendsFinished ->
            IF o.resuming
            THEN Term
            ELSE (IF o.server_issues_ticket THEN ServerSendsNewSessionTicket
                                            ELSE ServerSendsChangeCipherSpec)
      [] st = ServerSendsNewSessionTicket -> ServerSendsChangeCipherSpec
      [] st = ServerSendsChangeCipherSpec -> ServerSendsFinished
      [] st = ServerSendsFinished ->
            IF o.resuming THEN ClientSendsChangeCipherSpec ELSE Term
      [] st = Term -> Term

\* C2: for every (state, options) pair step returns one State, the one that
\* branching rules 1-15 prescribe for the current state.
C2_StepFollowsRules ==
    pc = "stepped" => next \in State /\ next = TransitionRule(state, opts)

C2_Witness ==
    /\ pc = "stepped"
    /\ state = ServerSendsServerHello
    /\ ~opts.resuming /\ opts.dh_anon
    /\ next = ServerSendsServerKeyExchange

\* The (Peer, MessageType) table of the classify operation.
ClassifyTable ==
    [ClientSendsClientHello        |-> <<"Client", "ClientHello">>,
     ServerSendsServerHello        |-> <<"Server", "ServerHello">>,
     ServerSendsCertificate        |-> <<"Server", "Certificate">>,
     ServerSendsServerKeyExchange  |-> <<"Server", "ServerKeyExchange">>,
     ServerSendsCertificateRequest |-> <<"Server", "CertificateRequest">>,
     ServerSendsServerHelloDone    |-> <<"Server", "ServerHelloDone">>,
     ClientSendsCertificate        |-> <<"Client", "Certificate">>,
     ClientSendsClientKeyExchange  |-> <<"Client", "ClientKeyExchange">>,
     ClientSendsCertificateVerify  |-> <<"Client", "CertificateVerify">>,
     ClientSendsChangeCipherSpec   |-> <<"Client", "ChangeCipherSpec">>,
     ClientSendsFinished           |-> <<"Client", "Finished">>,
     ServerSendsNewSessionTicket   |-> <<"Server", "NewSessionTicket">>,
     ServerSendsChangeCipherSpec   |-> <<"Server", "ChangeCipherSpec">>,
     ServerSendsFinished           |-> <<"Server", "Finished">>]

\* C3: on each of the 14 non-terminal states sends returns the (Peer,
\* MessageType) pair of the table, and two distinct non-terminal states
\* never get the same pair.
C3_SendsInjective ==
    (pc = "sent" /\ state # Term) =>
        /\ send \in Peer \X MessageType
        /\ send = ClassifyTable[state]
        /\ (other # Term /\ other # state) => sendOther # send

\* The two Certificate states, told apart by the peer only.
C3_Witness ==
    /\ pc = "sent"
    /\ state = ClientSendsCertificate
    /\ other = ServerSendsCertificate
    /\ send[2] = sendOther[2]
    /\ send # sendOther

\* C4: Term is absorbing: step maps Term to Term under every option value,
\* so a run that has reached Term stays in Term.
C4_TermAbsorbing == [][state = Term => state' = Term]_vars

\* step has been applied to Term and the run is still in Term.
C4_Witness ==
    /\ Applications >= 2
    /\ run[Len(run) - 1] = Term
    /\ state = Term

\* C5: sends on Term panics and returns no (Peer, MessageType) value; sends
\* on any other state, and step on any state, do not fail.
C5_PanicOnlyOnTerm ==
    /\ pc = "sent" => /\ (state = Term) <=> (send = Panic)
                      /\ (state # Term) => send \in Peer \X MessageType
    /\ pc = "stepped" => next \in State

C5_Witness == pc = "sent" /\ state = Term /\ send = Panic

\* C6: the loop of print / linearise never calls sends on Term (never
\* panics), terminates, and has emitted at least one message when it ends.
C6_DriverSafeAndTerminates ==
    /\ [](pc # "panicked")
    /\ [](pc = "sends" => state # Term)
    /\ <>(pc = "done")
    /\ [](pc = "done" => Len(v) >= 1 /\ next = Term)

C6_Witness == pc = "done" /\ Len(v) >= 1 /\ next = Term /\ state # Term

\* ProtocolOptions { resuming: true, ..Default::default() }
ResumeOptions == [DefaultOptions EXCEPT !.resuming = TRUE]

ResumeRun ==
    <<ClientSendsClientHello, ServerSendsServerHello, ServerSendsFinished,
      ClientSendsChangeCipherSpec, ClientSendsFinished>>

\* C7: with only resuming set the run visits ClientSendsClientHello,
\* ServerSendsServerHello, ServerSendsFinished, ClientSendsChangeCipherSpec,
\* ClientSendsFinished, Term in that order: 5 messages, none of them a
\* Certificate, ServerKeyExchange, ClientKeyExchange or NewSessionTicket.
C7_ResumeRun ==
    opts = ResumeOptions =>
        /\ IsPrefix(StatesOf(v), ResumeRun)
        /\ \A i \in 1..Len(v) :
              v[i][3] \notin {"Certificate", "ServerKeyExchange",
                              "ClientKeyExchange", "NewSessionTicket"}
        /\ pc = "done" => /\ StatesOf(v) = ResumeRun
                          /\ Len(v) = 5
                          /\ next = Term

C7_Witness ==
    opts = ResumeOptions /\ pc = "done" /\ Len(v) = 5 /\ next = Term

\* ProtocolOptions { request_client_auth: true, perform_client_auth: true,
\*                   ..Default::default() }
ClientAuthOptions ==
    [DefaultOptions EXCEPT !.request_client_auth = TRUE,
                           !.perform_client_auth = TRUE]

ClientAuthMessages ==
    << <<"Client", "ClientHello">>,       <<"Server", "ServerHello">>,
       <<"Server", "Certificate">>,       <<"Server", "ServerKeyExchange">>,
       <<"Server", "CertificateRequest">>, <<"Server", "ServerHelloDone">>,
       <<"Client", "Certificate">>,       <<"Client", "ClientKeyExchange">>,
       <<"Client", "CertificateVerify">>, <<"Client", "ChangeCipherSpec">>,
       <<"Client", "Finished">>,          <<"Server", "ChangeCipherSpec">>,
       <<"Server", "Finished">> >>

\* C8: with request_client_auth and perform_client_auth set and every other
\* flag clear, the run emits the 13 messages of the full handshake with
\* client authentication in order and then reaches Term.
C8_ClientAuthRun ==
    opts = ClientAuthOptions =>
        /\ IsPrefix(MessagesOf(v), ClientAuthMessages)
        /\ pc = "done" => /\ MessagesOf(v) = ClientAuthMessages
                          /\ next = Term

C8_Witness ==
    opts = ClientAuthOptions /\ pc = "done" /\ Len(v) = 13 /\ next = Term

\* C9: with resuming and server_issues_ticket set, the state that follows
\* ClientSendsFinished is Term: no ServerSendsNewSessionTicket and no
\* ServerSendsChangeCipherSpec comes after ClientSendsFinished.
C9_ResumingBeatsTicket ==
    (opts.resuming /\ opts.server_issues_ticket) =>
        /\ (pc \in {"check", "done"} /\ state = ClientSendsFinished)
              => next = Term
        /\ \A i, j \in 1..Len(v) :
              (i < j /\ v[i][1] = ClientSendsFinished) =>
                  v[j][1] \notin {ServerSendsNewSessionTicket,
                                  ServerSendsChangeCipherSpec}

\* The ticket was sent earlier in the run, after ServerHello.
C9_Witness ==
    /\ opts.resuming /\ opts.server_issues_ticket
    /\ pc = "done"
    /\ state = ClientSendsFinished
    /\ next = Term
    /\ \E i \in 1..Len(v) : v[i][1] = ServerSendsNewSessionTicket

\* The option values that test::rustls_subset enumerates.
RustlsSubset ==
    {o \in ProtocolOptions :
        /\ ~o.dh_anon /\ ~o.rsa_kem
        /\ <<o.request_client_auth, o.perform_client_auth>>
              \in {<<FALSE, FALSE>>, <<TRUE, FALSE>>, <<TRUE, TRUE>>}}

\* C10: for each of the 12 option values of rustls_subset the run is finite
\* and non-empty, reaches Term, and visits no non-terminal state twice.
C10_RustlsSubsetRuns ==
    /\ [](opts \in RustlsSubset =>
            /\ NoRepeat(StatesOf(v))
            /\ \A i \in 1..Len(v) : v[i][1] # Term
            /\ pc # "panicked"
            /\ pc = "done" => Len(v) >= 1 /\ next = Term)
    /\ (opts \in RustlsSubset => <>(pc = "done"))

C10_Witness ==
    /\ opts \in RustlsSubset
    /\ opts.server_issues_ticket /\ ~opts.resuming
    /\ opts.request_client_auth /\ opts.perform_client_auth
    /\ pc = "done"
    /\ Len(v) = 14

\* C11 as stated: every non-terminal state has at most two possible
\* successors over all option values, chosen by at most one flag.
C11_AtMostBinaryBranch ==
    (pc = "probe" /\ state # Term) =>
        /\ Cardinality(seen) <= 2
        /\ Cardinality(deps) <= 1

\* C11, amended: eleven of the 14 non-terminal states have at most two
\* possible successors chosen by at most one flag; ServerSendsServerHello has
\* up to four, chosen by resuming, server_issues_ticket and dh_anon;
\* ServerSendsCertificate up to three, chosen by rsa_kem and
\* request_client_auth; ClientSendsFinished up to three, chosen by resuming
\* and server_issues_ticket.
C11_BranchingBounded ==
    (pc = "probe" /\ state # Term) =>
        CASE state = ServerSendsServerHello ->
                /\ Cardinality(seen) <= 4
                /\ deps \subseteq {"resuming", "server_issues_ticket", "dh_anon"}
          [] state = ServerSendsCertificate ->
                /\ Cardinality(seen) <= 3
                /\ deps \subseteq {"rsa_kem", "request_client_auth"}
          [] state = ClientSendsFinished ->
                /\ Cardinality(seen) <= 3
                /\ deps \subseteq {"resuming", "server_issues_ticket"}
          [] OTHER ->
                /\ Cardinality(seen) <= 2
                /\ Cardinality(deps) <= 1

\* All four successors of ServerSendsServerHello and all three flags seen.
C11_Witness ==
    /\ pc = "probe"
    /\ state = ServerSendsServerHello
    /\ Cardinality(seen) = 4
    /\ deps = {"resuming", "server_issues_ticket", "dh_anon"}

\* C12: under fixed options, iterating step from any of the 15 states never
\* visits a non-terminal state twice and is in Term after at most 14
\* applications.
C12_NoCycleFromAnyState ==
    /\ \A i, j \in 1..Len(run) :
          (run[i] = run[j] /\ run[i] # Term) => i = j
    /\ Applications >= 14 => state = Term

\* A start that the run from State::default() never visits when resuming.
C12_Witness ==
    /\ opts.resuming
    /\ run[1] = ServerSendsCertificate
    /\ Applications >= 2
    /\ state = Term

\* The states the loop has visited so far, and how often one occurs.
Visits == StatesOf(v)
Count(st) == Cardinality({i \in 1..Len(v) : v[i][1] = st})
Visited(st) == \E i \in 1..Len(v) : v[i][1] = st
Done == pc = "done"

\* C13: ServerSendsNewSessionTicket is visited once when server_issues_ticket
\* is set and never otherwise; it comes right after ClientSendsFinished in a
\* full handshake and right after ServerSendsServerHello in a resumed one, and
\* ServerSendsChangeCipherSpec comes right after it.
C13_TicketOnce ==
    /\ Count(ServerSendsNewSessionTicket)
          <= (IF opts.server_issues_ticket THEN 1 ELSE 0)
    /\ Done => Count(ServerSendsNewSessionTicket)
                  = (IF opts.server_issues_ticket THEN 1 ELSE 0)
    /\ \A i \in 1..Len(v) :
          Visits[i] = ServerSendsNewSessionTicket =>
              /\ i > 1
              /\ Visits[i - 1] = (IF opts.resuming THEN ServerSendsServerHello
                                                   ELSE ClientSendsFinished)
              /\ i < Len(v) => Visits[i + 1] = ServerSendsChangeCipherSpec
    /\ (pc \in {"check", "done"} /\ state = ServerSendsNewSessionTicket)
          => next = ServerSendsChangeCipherSpec

C13_Witness ==
    /\ Done
    /\ opts.server_issues_ticket /\ ~opts.resuming
    /\ Count(ServerSendsNewSessionTicket) = 1
    /\ Visited(ServerSendsChangeCipherSpec)

\* C14: with dh_anon set in a full handshake the run never visits
\* ServerSendsCertificate, and ServerSendsServerKeyExchange comes right after
\* ServerSendsServerHello, whatever the other flags are.
C14_AnonSkipsCertificate ==
    (opts.dh_anon /\ ~opts.resuming) =>
        /\ ~Visited(ServerSendsCertificate)
        /\ \A i \in 1..Len(v) :
              (Visits[i] = ServerSendsServerHello /\ i < Len(v))
                  => Visits[i + 1] = ServerSendsServerKeyExchange
        /\ (pc \in {"check", "done"} /\ state = ServerSendsServerHello)
              => next = ServerSendsServerKeyExchange
        /\ Done => /\ Visited(ServerSendsServerHello)
                   /\ Visited(ServerSendsServerKeyExchange)

C14_Witness ==
    /\ Done
    /\ opts.dh_anon /\ opts.rsa_kem /\ ~opts.resuming
    /\ Visited(ServerSendsServerKeyExchange)
    /\ ~Visited(ServerSendsCertificate)

\* C15: in a full handshake without dh_anon, when rsa_kem is clear
\* ServerSendsServerKeyExchange comes right after ServerSendsCertificate, and
\* when rsa_kem is set ServerSendsServerKeyExchange is never visited: the
\* certificate is followed by ServerSendsCertificateRequest or
\* ServerSendsServerHelloDone.
C15_RsaKemSkipsKeyExchange ==
    (~opts.resuming /\ ~opts.dh_anon) =>
        /\ Done => Visited(ServerSendsCertificate)
        /\ ~opts.rsa_kem =>
              /\ \A i \in 1..Len(v) :
                    (Visits[i] = ServerSendsCertificate /\ i < Len(v))
                        => Visits[i + 1] = ServerSendsServerKeyExchange
              /\ Done => Visited(ServerSendsServerKeyExchange)
        /\ opts.rsa_kem =>
              /\ ~Visited(ServerSendsServerKeyExchange)
              /\ \A i \in 1..Len(v) :
                    (Visits[i] = ServerSendsCertificate /\ i < Len(v))
                        => Visits[i + 1] \in {ServerSendsCertificateRequest,
                                              ServerSendsServerHelloDone}

C15_Witness ==
    /\ Done
    /\ ~opts.resuming /\ ~opts.dh_anon /\ opts.rsa_kem
    /\ Visited(ServerSendsCertificate)
    /\ ~Visited(ServerSendsServerKeyExchange)

\* perform_client_auth without request_client_auth, in a full handshake.
Unsolicited ==
    opts.perform_client_auth /\ ~opts.request_client_auth /\ ~opts.resuming

\* C16: perform_client_auth without request_client_auth is accepted: the full
\* handshake runs to Term without failure and contains
\* ClientSendsCertificateVerify although ServerSendsCertificateRequest is
\* never visited.
C16_UnsolicitedVerify ==
    /\ [](Unsolicited =>
            /\ pc # "panicked"
            /\ ~Visited(ServerSendsCertificateRequest)
            /\ Done => /\ Visited(ClientSendsCertificateVerify)
                       /\ next = Term)
    /\ (Unsolicited => <>Done)

C16_Witness ==
    /\ Done
    /\ Unsolicited
    /\ Visited(ClientSendsCertificateVerify)
    /\ ~Visited(ServerSendsCertificateRequest)

\* C17: the client sends Certificate exactly when the server has sent
\* CertificateRequest earlier in the run, and both happen exactly when
\* request_client_auth is set and resuming is clear.
C17_CertificateIffRequested ==
    /\ \A j \in 1..Len(v) :
          Visits[j] = ClientSendsCertificate =>
              \E i \in 1..(j - 1) : Visits[i] = ServerSendsCertificateRequest
    /\ Visited(ServerSendsCertificateRequest)
          => (opts.request_client_auth /\ ~opts.resuming)
    /\ Done =>
          /\ Visited(ClientSendsCertificate)
                <=> Visited(ServerSendsCertificateRequest)
          /\ Visited(ClientSendsCertificate)
                <=> (opts.request_client_auth /\ ~opts.resuming)

C17_Witness ==
    /\ Done
    /\ opts.request_client_auth /\ ~opts.resuming /\ opts.dh_anon
    /\ Visited(ServerSendsCertificateRequest)
    /\ Visited(ClientSendsCertificate)

\* C18: every Finished comes right after the ChangeCipherSpec of the same
\* peer: ServerSendsFinished is entered only from ServerSendsChangeCipherSpec
\* and ClientSendsFinished only from ClientSendsChangeCipherSpec.
C18_FinishedAfterChangeCipherSpec ==
    \A i \in 1..Len(v) :
        /\ Visits[i] = ServerSendsFinished =>
              (i > 1 /\ Visits[i - 1] = ServerSendsChangeCipherSpec)
        /\ Visits[i] = ClientSendsFinished =>
              (i > 1 /\ Visits[i - 1] = ClientSendsChangeCipherSpec)

\* C19: ClientSendsFinished and ServerSendsFinished are each visited exactly
\* once, and the last state before Term is ServerSendsFinished in a full
\* handshake and ClientSendsFinished in a resumed one.
C19_FinishedOnceEach ==
    /\ Count(ClientSendsFinished) <= 1
    /\ Count(ServerSendsFinished) <= 1
    /\ Done =>
          /\ Count(ClientSendsFinished) = 1
          /\ Count(ServerSendsFinished) = 1
          /\ next = Term
          /\ state = Visits[Len(v)]
          /\ state = (IF opts.resuming THEN ClientSendsFinished
                                       ELSE ServerSendsFinished)

C19_Witness ==
    /\ Done
    /\ opts.resuming
    /\ state = ClientSendsFinished
    /\ Count(ServerSendsFinished) = 1

\* C20: a resumed run depends on server_issues_ticket only: it visits the
\* same states as the run under any other options with resuming set and the
\* same server_issues_ticket, and it contains no Certificate,
\* ServerKeyExchange, CertificateRequest, ServerHelloDone, ClientKeyExchange
\* or CertificateVerify message.
C20_ResumedRunByTicketOnly ==
    opts.resuming =>
        /\ \A o2 \in ProtocolOptions :
              (o2.resuming
                 /\ o2.server_issues_ticket = opts.server_issues_ticket) =>
                  /\ IsPrefix(Visits, linearise(o2))
                  /\ Done => Visits = linearise(o2)
        /\ \A i \in 1..Len(v) :
              v[i][3] \notin {"Certificate", "ServerKeyExchange",
                              "CertificateRequest", "ServerHelloDone",
                              "ClientKeyExchange", "CertificateVerify"}

\* A resumed run with every other flag set, compared with the others.
C20_Witness ==
    /\ Done
    /\ opts.resuming /\ opts.server_issues_ticket
    /\ opts.request_client_auth /\ opts.perform_client_auth
    /\ opts.dh_anon /\ opts.rsa_kem
    /\ Len(v) = 7
    /\ Visits = linearise([DefaultOptions EXCEPT !.resuming = TRUE,
                                                 !.server_issues_ticket = TRUE])

====
